---- MODULE Spec2Model ----
(***************************************************************************)
(* SQL safety gate and execution engine of the financial assistant         *)
(* (src/sql_query_tool.py): SQLQueryTool.validate_sql and                  *)
(* SQLQueryTool.execute_query, with the embedded store as environment, and  *)
(* their callers LLMSQLAssistant.set_client and process_query              *)
(* (src/llm_sql_assistant.py).                                             *)
(*                                                                         *)
(* The string operations (upper(), strip(), rstrip(';'), substring tests,  *)
(* the regular expressions of forbidden_patterns) are computed character   *)
(* by character on Chars(s), the sequence of the characters of a str s.    *)
(***************************************************************************)
EXTENDS Naturals, Sequences, FiniteSets, TLC

VARIABLES
    pc,              \* position of the caller / of execute_query
    sql,             \* execute_query's argument
    is_valid,        \* validate_sql's verdict for sql (line 105)
    validation_msg,  \* validate_sql's message for sql (line 105)
    conn,            \* this call's connection: "none", "open", "closed"
    limited_sql,     \* the text handed to cursor.execute (line 125), "" before
    executed,        \* statements run on this call's connection
    matching,        \* rows of the store that match the statement sent
    description,     \* cursor.description: the result's column names (line 136)
    rows,            \* rows fetched by cursor.fetchall() (line 128)
    outcome,         \* the dict execute_query returned, NoOutcome before
    exc,             \* the exception an except clause caught, NoException before
    leaked,          \* connections of returned calls that nobody closed
    calls,           \* execute_query calls made by the caller's current operation
    frame,           \* who calls execute_query: "main", "set_client:count",
                     \* "set_client:summary" or "process_query"
    client,          \* LLMSQLAssistant.client: whether the OpenAI client exists
    current_client_id,   \* LLMSQLAssistant.current_client_id
    client_id,       \* set_client's argument
    client_id_before,    \* current_client_id when set_client was entered
    sql_gen_result,  \* process_query: the dict generate_sql returned
    sql_query,       \* process_query: sql_gen_result["sql"]
    returned         \* what set_client or process_query returned last

\* The locals of one execute_query call, and the connections left behind.
engine == <<pc, sql, is_valid, validation_msg, conn, limited_sql, executed,
            matching, description, rows, outcome, exc, leaked, calls>>

\* The state of LLMSQLAssistant and of the operation it is running.
assistant == <<frame, client, current_client_id, client_id, client_id_before,
               sql_gen_result, sql_query, returned>>

vars == <<engine, assistant>>

-----------------------------------------------------------------------------
(* Characters and strings *)

\* A Python str as the sequence of its characters.
Chars(s) == [i \in 1..Len(s) |-> SubSeq(s, i, i)]

\* The str whose characters are the sequence c.
RECURSIVE Str(_)
Str(c) == IF c = <<>> THEN "" ELSE Str(SubSeq(c, 1, Len(c) - 1)) \o c[Len(c)]

LowerLetters == Chars("abcdefghijklmnopqrstuvwxyz")

UpperLetters == Chars("ABCDEFGHIJKLMNOPQRSTUVWXYZ")

Digits == Chars("0123456789")

\* ASCII whitespace: what str.strip() removes and the regex class \s matches.
Whitespace == {" ", "\t", "\n"}

\* str.upper() on one character.
UpperChar(c) ==
    IF \E i \in 1..26 : LowerLetters[i] = c
    THEN UpperLetters[CHOOSE i \in 1..26 : LowerLetters[i] = c]
    ELSE c

\* str.upper()
Upper(s) == [i \in 1..Len(s) |-> UpperChar(s[i])]

\* str.rstrip(chars): every trailing character that is in chars goes.
RStrip(s, chars) ==
    LET keep == {i \in 1..Len(s) : s[i] \notin chars}
    IN  IF keep = {} THEN <<>>
        ELSE SubSeq(s, 1, CHOOSE i \in keep : \A j \in keep : j <= i)

\* str.lstrip(chars)
LStrip(s, chars) ==
    LET keep == {i \in 1..Len(s) : s[i] \notin chars}
    IN  IF keep = {} THEN <<>>
        ELSE SubSeq(s, CHOOSE i \in keep : \A j \in keep : i <= j, Len(s))

\* str.strip()
Strip(s) == LStrip(RStrip(s, Whitespace), Whitespace)

\* str.startswith(p)
StartsWith(s, p) == Len(s) >= Len(p) /\ SubSeq(s, 1, Len(p)) = p

\* The positions at which p occurs in s.
Occurrences(s, p) ==
    {i \in 1..(Len(s) + 1) : i + Len(p) - 1 <= Len(s) /\ SubSeq(s, i, i + Len(p) - 1) = p}

\* p in s
Contains(s, p) == Occurrences(s, p) # {}

\* str.count(c) for a single character c
Count(s, c) == Cardinality({i \in 1..Len(s) : s[i] = c})

Range(s) == {s[i] : i \in 1..Len(s)}

-----------------------------------------------------------------------------
(* SQLQueryTool.__init__ *)

\* One entry of forbidden_patterns: the literal text of the regular expression,
\* whether it ends in \s+, and the pattern as written (for the message).
Pattern(text, space, src) == [lit |-> Chars(text), ws |-> space, src |-> src]

forbidden_patterns ==
    << Pattern("DROP",   TRUE,  "DROP\\s+"),
       Pattern("DELETE", TRUE,  "DELETE\\s+"),
       Pattern("INSERT", TRUE,  "INSERT\\s+"),
       Pattern("UPDATE", TRUE,  "UPDATE\\s+"),
       Pattern("ALTER",  TRUE,  "ALTER\\s+"),
       Pattern("CREATE", TRUE,  "CREATE\\s+"),
       Pattern("EXEC",   TRUE,  "EXEC\\s+"),
       Pattern("UNION",  TRUE,  "UNION\\s+"),
       Pattern("--",     FALSE, "--"),
       Pattern("/*",     FALSE, "/\\*"),
       Pattern("xp_",    FALSE, "xp_"),
       Pattern("sp_",    FALSE, "sp_") >>

max_results == 1000

-----------------------------------------------------------------------------
(* SQLQueryTool.validate_sql *)

\* re.search(pattern, s): the literal occurs somewhere, followed by at least one
\* whitespace character when the pattern ends in \s+.
re_search(p, s) ==
    \E i \in Occurrences(s, p.lit) :
        p.ws => (i + Len(p.lit) <= Len(s) /\ s[i + Len(p.lit)] \in Whitespace)

\* 'FROM {table}' in sql_upper for one of the two upper-cased table names.
UsesAllowedTable(sql_upper) ==
    \E table \in {Chars("TRANSACTIONS"), Chars("CLIENT_SUMMARY")} :
        Contains(sql_upper, Chars("FROM ") \o table)

\* validate_sql with the forbidden-pattern rule tried before the SELECT rule.
validate_sql_forbidden_first(s) ==
    LET sql_upper == Strip(Upper(s))
        hits == {k \in 1..Len(forbidden_patterns) : re_search(forbidden_patterns[k], sql_upper)}
        first == CHOOSE k \in hits : \A j \in hits : k <= j
        quote_count == Count(s, "'")
    IN  IF hits # {}
        THEN <<FALSE, "Forbidden SQL pattern detected: " \o forbidden_patterns[first].src>>
        ELSE IF ~StartsWith(sql_upper, Chars("SELECT"))
        THEN <<FALSE, "Only SELECT queries are allowed">>
        ELSE IF ~UsesAllowedTable(sql_upper)
        THEN <<FALSE, "Query must use 'transactions' or 'client_summary' table">>
        ELSE IF quote_count % 2 # 0
        THEN <<FALSE, "Unmatched quotes detected">>
        ELSE <<TRUE, "Query validated successfully">>

\* validate_sql without the quote-parity rule.
validate_sql_no_quote_rule(s) ==
    LET sql_upper == Strip(Upper(s))
        hits == {k \in 1..Len(forbidden_patterns) : re_search(forbidden_patterns[k], sql_upper)}
        first == CHOOSE k \in hits : \A j \in hits : k <= j
    IN  IF ~StartsWith(sql_upper, Chars("SELECT"))
        THEN <<FALSE, "Only SELECT queries are allowed">>
        ELSE IF hits # {}
        THEN <<FALSE, "Forbidden SQL pattern detected: " \o forbidden_patterns[first].src>>
        ELSE IF ~UsesAllowedTable(sql_upper)
        THEN <<FALSE, "Query must use 'transactions' or 'client_summary' table">>
        ELSE <<TRUE, "Query validated successfully">>

validate_sql(s) ==
    LET sql_upper == Strip(Upper(s))
        hits == {k \in 1..Len(forbidden_patterns) : re_search(forbidden_patterns[k], sql_upper)}
        first == CHOOSE k \in hits : \A j \in hits : k <= j
        quote_count == Count(s, "'")
    IN  IF ~StartsWith(sql_upper, Chars("SELECT"))
        THEN <<FALSE, "Only SELECT queries are allowed">>
        ELSE IF hits # {}
        THEN <<FALSE, "Forbidden SQL pattern detected: " \o forbidden_patterns[first].src>>
        ELSE IF ~UsesAllowedTable(sql_upper)
        THEN <<FALSE, "Query must use 'transactions' or 'client_summary' table">>
        ELSE IF quote_count % 2 # 0
        THEN <<FALSE, "Unmatched quotes detected">>
        ELSE <<TRUE, "Query validated successfully">>

-----------------------------------------------------------------------------
(* The store (sqlite3), as far as execute_query depends on it *)

\* The value of a string of decimal digits.
RECURSIVE DigitsToNat(_)
DigitsToNat(d) ==
    IF d = <<>> THEN 0
    ELSE 10 * DigitsToNat(SubSeq(d, 1, Len(d) - 1))
         + ((CHOOSE i \in 1..10 : Digits[i] = d[Len(d)]) - 1)

\* str(n) for a natural number n
RECURSIVE NatToChars(_)
NatToChars(n) ==
    IF n < 10 THEN <<Digits[n + 1]>>
    ELSE NatToChars(n \div 10) \o <<Digits[(n % 10) + 1]>>

\* The row limit the store reads from a statement: {n} for a closing
\* "LIMIT n" clause (any letter case, before optional terminators), {} when
\* the statement closes otherwise.
StoreLimit(text) ==
    LET core == RStrip(text, Whitespace \cup {";"})
        num == {i \in 1..Len(core) : \A j \in i..Len(core) : core[j] \in Range(Digits)}
        start == CHOOSE i \in num : \A j \in num : i <= j
        before == SubSeq(core, 1, start - 1)
        word == RStrip(before, Whitespace)
        kw == Chars("LIMIT")
    IN  IF /\ num # {}
           /\ Len(word) < Len(before)
           /\ Len(word) > Len(kw)
           /\ SubSeq(Upper(word), Len(word) - Len(kw) + 1, Len(word)) = kw
           /\ word[Len(word) - Len(kw)] \in Whitespace
        THEN {DigitsToNat(SubSeq(core, start, Len(core)))}
        ELSE {}

\* A statement that selects COUNT(*): its result is one row, whose value is
\* the number of matching rows.
IsCountQuery(text) == StartsWith(Upper(text), Chars("SELECT COUNT(*)"))

\* The number of rows cursor.fetchall() yields for a statement that n rows match.
StoreRows(text, n) ==
    LET lim == StoreLimit(text)
        found == IF IsCountQuery(text) THEN 1 ELSE n
    IN  IF \E l \in lim : l < found THEN CHOOSE l \in lim : TRUE ELSE found

\* cursor.execute runs one statement: text after a terminator other than
\* further terminators and whitespace is refused ("You can only execute one
\* statement at a time").
StoreRefuses(text) ==
    \E i \in 1..Len(text) :
        /\ text[i] = ";"
        /\ \E j \in (i + 1)..Len(text) : text[j] \notin (Whitespace \cup {";"})

\* What the driver can raise: a sqlite3.Error (unknown column, syntax error,
\* unable to open the file) or another Exception; str(e) may be empty.
DriverErrors ==
    { [type |-> "sqlite3.Error", text |-> "no such column: nocol"],
      [type |-> "Exception",     text |-> ""] }

\* cursor.description of the statements run: distinct names, or the same
\* column selected twice.
Descriptions == { <<"clnt_id", "amt">>, <<"amt", "amt">> }

\* cursor.description for a statement: the alias of a COUNT(*) column, the
\* columns of client_summary, or one of Descriptions.
StoreDescriptions(text) ==
    IF IsCountQuery(text) THEN { <<"count">> }
    ELSE IF StartsWith(Upper(text), Chars("SELECT * FROM CLIENT_SUMMARY"))
    THEN { <<"clnt_id", "transaction_count", "total_spending", "first_transaction",
             "last_transaction", "categories_used", "merchants_used">> }
    ELSE Descriptions

ExtraRows == 5

MaxLeaked == 1

\* How many rows of the store can match a statement.
RowCounts ==
    {0, 2, 5, max_results - 1, max_results, max_results + 1, max_results + ExtraRows}

-----------------------------------------------------------------------------
(* SQLQueryTool.execute_query *)

NoOutcome == [success |-> "none"]

\* Python's None where a client id is expected (ids are held as their text).
None == "None"

\* A Python value that is a str or None, with its type.
PyStr(s) == [type |-> "str", val |-> s]

PyNone == [type |-> "NoneType", val |-> ""]

\* generate_sql has not been called.
NoResult == [success |-> "none"]

\* Nothing was returned by set_client or process_query.
NoReturn == [fn |-> "none"]

NoException == [type |-> "none", text |-> ""]

\* results == [] ; a non-empty list is its length and the keys of each dict(row).
EmptyResults == [len |-> 0, keys |-> <<>>]

\* The failure dict of lines 107-112, 150-155 and 157-162.
Failure(error, query) ==
    [success |-> FALSE, error |-> error, query |-> query, results |-> EmptyResults]

\* dict(row): one key per distinct column name, in order of first occurrence.
RECURSIVE DictKeys(_)
DictKeys(d) ==
    IF d = <<>> THEN <<>>
    ELSE LET init == DictKeys(SubSeq(d, 1, Len(d) - 1))
         IN  IF d[Len(d)] \in Range(init) THEN init ELSE Append(init, d[Len(d)])

\* sql.rstrip(';').strip()
sql_clean(s) == Strip(RStrip(s, {";"}))

\* LimitedSql with the cap appended to every statement.
LimitedSqlAlwaysCapped(s) ==
    sql_clean(s) \o Chars(" LIMIT ") \o NatToChars(max_results)

\* Lines 120-124: the statement with the cap appended unless LIMIT occurs in it.
LimitedSql(s) ==
    LET clean == sql_clean(s)
    IN  IF ~Contains(Upper(clean), Chars("LIMIT"))
        THEN clean \o Chars(" LIMIT ") \o NatToChars(max_results)
        ELSE clean

\* ExceptBranch without the second clause, "except Exception".
ExceptBranchSqliteOnly(e) ==
    IF e.type = "sqlite3.Error"
    THEN [caught |-> TRUE, error |-> "SQL Execution Error: " \o e.text]
    ELSE [caught |-> FALSE, error |-> ""]

\* The except clauses: which one catches e, and the error text it builds.
ExceptBranch(e) ==
    IF e.type = "sqlite3.Error"
    THEN [caught |-> TRUE, error |-> "SQL Execution Error: " \o e.text]
    ELSE [caught |-> TRUE, error |-> "Unexpected Error: " \o e.text]

\* An exception e raised inside the try block.
Raise(e) ==
    LET h == ExceptBranch(e)
    IN  /\ exc' = e
        /\ IF h.caught
           THEN /\ pc' = "returned"
                /\ outcome' = Failure(h.error, sql)
           ELSE /\ pc' = "raised"
                /\ outcome' = outcome

\* Validate without the early return of lines 106-112.
ValidateAndProceed(s) ==
    /\ pc = "idle"
    /\ sql' = s
    /\ LET v == validate_sql(Chars(s))
       IN  /\ is_valid' = v[1]
           /\ validation_msg' = v[2]
    /\ pc' = "connect"
    /\ calls' = calls + 1
    /\ UNCHANGED <<conn, limited_sql, executed, matching, description, rows, outcome,
                   exc, leaked>>
    /\ UNCHANGED assistant

\* Lines 104-112: validate; a rejected statement returns at once.
Validate(s) ==
    /\ pc = "idle"
    /\ sql' = s
    /\ LET v == validate_sql(Chars(s))
       IN  /\ is_valid' = v[1]
           /\ validation_msg' = v[2]
           /\ IF ~v[1]
              THEN /\ pc' = "returned"
                   /\ outcome' = Failure("SQL Validation Failed: " \o v[2], s)
              ELSE /\ pc' = "connect"
                   /\ outcome' = outcome
    /\ calls' = calls + 1
    /\ UNCHANGED <<conn, limited_sql, executed, matching, description, rows, exc, leaked>>
    /\ UNCHANGED assistant

\* Lines 115-117: sqlite3.connect, which can fail.
Connect ==
    /\ pc = "connect"
    /\ leaked < MaxLeaked
    /\ \/ /\ conn' = "open"
          /\ pc' = "execute"
          /\ UNCHANGED <<outcome, exc>>
       \/ /\ \E e \in DriverErrors : Raise(e)
          /\ conn' = conn
    /\ UNCHANGED <<sql, is_valid, validation_msg, limited_sql, executed, matching,
                   description, rows, leaked, calls>>
    /\ UNCHANGED assistant

\* Lines 119-125: build limited_sql and hand it to cursor.execute.
Execute ==
    /\ pc = "execute"
    /\ limited_sql' = Str(LimitedSql(Chars(sql)))
    /\ executed' = executed + 1
    /\ \/ /\ ~StoreRefuses(Chars(limited_sql'))
          /\ \E n \in RowCounts : matching' = n
          /\ \E d \in StoreDescriptions(Chars(limited_sql')) : description' = d
          /\ pc' = "fetch"
          /\ UNCHANGED <<outcome, exc>>
       \/ /\ \E e \in DriverErrors : Raise(e)
          /\ UNCHANGED <<matching, description>>
    /\ UNCHANGED <<sql, is_valid, validation_msg, conn, rows, leaked, calls>>
    /\ UNCHANGED assistant

\* Lines 127-147: fetch, convert, close, return the success dict.
Fetch ==
    /\ pc = "fetch"
    /\ \/ LET n == StoreRows(Chars(limited_sql), matching)
              results == IF n = 0 THEN EmptyResults
                         ELSE [len |-> n, keys |-> DictKeys(description)]
          IN  /\ rows' = n
              /\ conn' = "closed"
              /\ pc' = "returned"
              /\ exc' = exc
              /\ outcome' = [ success |-> TRUE,
                              query |-> sql,
                              results |-> results,
                              column_names |-> IF n # 0 THEN description ELSE <<>>,
                              row_count |-> results.len,
                              limited |-> (results.len = max_results) ]
       \/ /\ \E e \in DriverErrors : Raise(e)
          /\ UNCHANGED <<rows, conn>>
    /\ UNCHANGED <<sql, is_valid, validation_msg, limited_sql, executed, matching,
                   description, leaked, calls>>
    /\ UNCHANGED assistant

\* The caller takes the dict; the call's locals are gone, and a connection the
\* call left open is closed by nobody.
CallerResumes ==
    /\ frame = "main"
    /\ pc = "returned"
    /\ pc' = "idle"
    /\ leaked' = IF conn = "open" THEN leaked + 1 ELSE leaked
    /\ sql' = ""
    /\ is_valid' = FALSE
    /\ validation_msg' = ""
    /\ conn' = "none"
    /\ limited_sql' = ""
    /\ executed' = 0
    /\ matching' = 0
    /\ description' = <<>>
    /\ rows' = 0
    /\ outcome' = NoOutcome
    /\ exc' = NoException
    /\ calls' = 0
    /\ UNCHANGED assistant

\* The runtime finalizes an unreachable connection object at a time of its own.
Finalize ==
    /\ leaked > 0
    /\ leaked' = leaked - 1
    /\ UNCHANGED <<pc, sql, is_valid, validation_msg, conn, limited_sql, executed,
                   matching, description, rows, outcome, exc, calls>>
    /\ UNCHANGED assistant

-----------------------------------------------------------------------------
(* Candidate statements *)

Lower(s) ==
    [i \in 1..Len(s) |->
        IF \E k \in 1..26 : UpperLetters[k] = s[i]
        THEN LowerLetters[CHOOSE k \in 1..26 : UpperLetters[k] = s[i]]
        ELSE s[i]]

\* The members of the forbidden set in both letter cases, and a harmless name.
Words ==
    UNION {{Upper(forbidden_patterns[k].lit), Lower(forbidden_patterns[k].lit)} :
              k \in 1..Len(forbidden_patterns)}
    \cup {Chars("c")}

\* A word in the select list or at the end of the WHERE clause, followed by
\* whitespace, by a non-whitespace character or by nothing.
KeywordStatements ==
    {Chars("SELECT ") \o w \o f \o Chars(" FROM transactions") :
        w \in Words, f \in {<<>>, Chars("(c)"), Chars(" c")}}
    \cup
    {Chars("SELECT * FROM transactions WHERE c = ") \o w \o f :
        w \in Words, f \in {<<>>, Chars("(c)"), Chars(" c")}}

TableStatements ==
    {Chars("SELECT * ") \o kw \o sep \o tbl \o suf \o sub :
        kw \in {Chars("FROM"), Chars("from")},
        sep \in {Chars(" "), Chars("  "), Chars("\t")},
        tbl \in {Chars("transactions"), Chars("TRANSACTIONS"),
                 Chars("Client_Summary"), Chars("users")},
        suf \in {<<>>, Chars("_old"), Chars(" t")},
        sub \in {<<>>, Chars(" WHERE c IN (SELECT c FROM transactions)")}}

OrderStatements ==
    {lead \o verb \o body \o tail :
        lead \in {<<>>, Chars(" "), Chars("\n\t")},
        verb \in {Chars("SELECT"), Chars("select"), Chars("SeLeCt"), Chars("DROP"),
                  Chars("SELEC"), Chars("(SELECT"), <<>>},
        body \in {Chars(" * FROM transactions"), Chars(" * FROM users"),
                  Chars(" DELETE FROM transactions"), <<>>},
        tail \in {<<>>, Chars(" WHERE c = 'a'"), Chars(" WHERE c = 'a"),
                  Chars("'"), Chars(" ")}}

LimitStatements ==
    {Chars("SELECT ") \o col \o Chars(" FROM transactions") \o whr \o lim \o term :
        col \in {Chars("*"), Chars("credit_limit")},
        whr \in {<<>>, Chars(" WHERE c = 'limit'"), Chars(" WHERE c = 'x'")},
        lim \in {<<>>, Chars(" LIMIT 3"), Chars(" limit 3"), Chars(" LIMIT 1002")},
        term \in {<<>>, Chars(";"), Chars("; "), Chars(";;"), Chars(" ;")}}

Statements ==
    {Str(s) : s \in KeywordStatements \cup TableStatements \cup OrderStatements
                       \cup LimitStatements}

-----------------------------------------------------------------------------
(* The specification *)

\* A SQLQueryTool was constructed and no call is running.
InitTool ==
    /\ pc = "idle"
    /\ sql = ""
    /\ is_valid = FALSE
    /\ validation_msg = ""
    /\ conn = "none"
    /\ limited_sql = ""
    /\ executed = 0
    /\ matching = 0
    /\ description = <<>>
    /\ rows = 0
    /\ outcome = NoOutcome
    /\ exc = NoException
    /\ leaked = 0
    /\ calls = 0

\* The tool on its own, called by test_queries: there is no assistant.
Init ==
    /\ InitTool
    /\ frame = "main"
    /\ client = FALSE
    /\ current_client_id = None
    /\ client_id = None
    /\ client_id_before = None
    /\ sql_gen_result = NoResult
    /\ sql_query = PyNone
    /\ returned = NoReturn

Next ==
    \/ \E s \in Statements : Validate(s)
    \/ Connect
    \/ Execute
    \/ Fetch
    \/ CallerResumes
    \/ Finalize

Spec == Init /\ [][Next]_vars

(***************************************************************************)
(* LLMSQLAssistant: set_client and process_query, which call execute_query *)
(***************************************************************************)

\* The client ids main() passes to set_client, as the text the f-strings put
\* into the statements.
ClientIds == {"2", "7"}

\* The statement set_client counts the client's transactions with.
CountQuery(id) == "SELECT COUNT(*) as count FROM transactions WHERE clnt_id = " \o id

\* The statement set_client reads the client's summary row with.
SummaryQuery(id) == "SELECT * FROM client_summary WHERE clnt_id = " \o id

\* The locals of a finished execute_query call go away; a connection that was
\* not closed stays behind.
ReleaseCall ==
    /\ leaked' = IF conn = "open" THEN leaked + 1 ELSE leaked
    /\ sql' = ""
    /\ is_valid' = FALSE
    /\ validation_msg' = ""
    /\ conn' = "none"
    /\ limited_sql' = ""
    /\ executed' = 0
    /\ matching' = 0
    /\ description' = <<>>
    /\ rows' = 0
    /\ outcome' = NoOutcome
    /\ exc' = NoException

\* main() calls set_client(id).
SetClient(id) ==
    /\ frame = "main"
    /\ pc = "idle"
    /\ frame' = "set_client:count"
    /\ client_id' = id
    /\ client_id_before' = current_client_id
    /\ returned' = NoReturn
    /\ calls' = 0
    /\ UNCHANGED <<pc, sql, is_valid, validation_msg, conn, limited_sql, executed,
                   matching, description, rows, outcome, exc, leaked>>
    /\ UNCHANGED <<client, current_client_id, sql_gen_result, sql_query>>

\* set_client calls execute_query with the count statement.
SetClientCount ==
    /\ frame = "set_client:count"
    /\ Validate(CountQuery(client_id))

\* set_client tests the count: with transactions it takes the id over and goes on
\* to the summary, otherwise it returns False.
SetClientCounted ==
    /\ frame = "set_client:count"
    /\ pc = "returned"
    /\ LET counted == /\ outcome.success = TRUE
                      /\ outcome.results.len > 0
                      /\ matching > 0
       IN  /\ current_client_id' = IF counted THEN client_id ELSE current_client_id
           /\ IF counted
              THEN /\ frame' = "set_client:summary"
                   /\ returned' = returned
              ELSE /\ frame' = "main"
                   /\ returned' = [fn |-> "set_client", value |-> FALSE]
    /\ pc' = "idle"
    /\ ReleaseCall
    /\ UNCHANGED <<calls, client, client_id, client_id_before, sql_gen_result, sql_query>>

\* set_client calls execute_query with the summary statement.
SetClientSummary ==
    /\ frame = "set_client:summary"
    /\ Validate(SummaryQuery(client_id))

\* set_client returns True if the summary statement gave a row, else False.
SetClientSummarized ==
    /\ frame = "set_client:summary"
    /\ pc = "returned"
    /\ returned' = [fn |-> "set_client",
                    value |-> outcome.success = TRUE /\ outcome.results.len > 0]
    /\ frame' = "main"
    /\ pc' = "idle"
    /\ ReleaseCall
    /\ UNCHANGED <<calls, client, current_client_id, client_id, client_id_before,
                   sql_gen_result, sql_query>>

\* The statements the language model writes.
Generated ==
    { "SELECT SUM(ABS(amt)) as total_spent FROM transactions WHERE clnt_id = 2",
      "SELECT * FROM transactions WHERE clnt_id = 2;",
      "DELETE FROM transactions WHERE clnt_id = 2" }

\* What the chat completion gives: an exception; JSON that is not an object;
\* a JSON object, body being the value under "sql" (None without one); or one
\* line of text that is not JSON, body being the line.
Replies ==
    { [kind |-> "api_error", body |-> PyNone],
      [kind |-> "json_not_object", body |-> PyNone],
      [kind |-> "json", body |-> PyNone],
      [kind |-> "text", body |-> PyStr("I cannot answer that.")] }
    \cup { [kind |-> k, body |-> PyStr(s)] : k \in {"json", "text"}, s \in Generated }

\* generate_sql's failure dict.
GenFailure(error) == [success |-> FALSE, sql |-> PyNone, error |-> error]

\* generate_sql's success dict.
GenSuccess(value) == [success |-> TRUE, sql |-> value]

\* generate_sql: what it returns for a reply of the language model.
generate_sql(reply) ==
    IF ~client THEN GenFailure("OpenAI API not available")
    ELSE IF current_client_id = None
    THEN GenFailure("No client selected. Please select a client first.")
    ELSE IF reply.kind = "json" THEN GenSuccess(reply.body)
    ELSE IF reply.kind = "text"
    THEN IF Contains(Upper(Chars(reply.body.val)), Chars("SELECT"))
         THEN GenSuccess(PyStr(Str(Strip(Chars(reply.body.val)))))
         ELSE GenFailure("Could not parse SQL from response: " \o reply.body.val)
    ELSE GenFailure("OpenAI API error")

\* The QueryResult process_query builds.
QueryResult(success, sql_generated, sql_results, error) ==
    [success |-> success, sql_generated |-> sql_generated,
     sql_results |-> sql_results, error |-> error]

\* main() calls process_query: generate_sql runs, and a failure is returned
\* at once.
ProcessQuery ==
    /\ frame = "main"
    /\ pc = "idle"
    /\ calls' = 0
    /\ \E reply \in Replies :
          LET result == generate_sql(reply)
          IN  /\ sql_gen_result' = result
              /\ IF ~result.success
                 THEN /\ returned' = [fn |-> "process_query",
                                      value |-> QueryResult(FALSE, PyNone, <<>>,
                                                            PyStr(result.error))]
                      /\ UNCHANGED <<frame, sql_query>>
                 ELSE /\ frame' = "process_query"
                      /\ sql_query' = result.sql
                      /\ returned' = NoReturn
    /\ UNCHANGED <<pc, sql, is_valid, validation_msg, conn, limited_sql, executed,
                   matching, description, rows, outcome, exc, leaked>>
    /\ UNCHANGED <<client, current_client_id, client_id, client_id_before>>

\* process_query calls execute_query with a str.
ProcessQueryExecute ==
    /\ frame = "process_query"
    /\ sql_query.type = "str"
    /\ Validate(sql_query.val)

\* process_query calls execute_query with a value that is no str: validate_sql
\* calls upper() on it, outside every try.
ProcessQueryExecuteNonStr ==
    /\ frame = "process_query"
    /\ pc = "idle"
    /\ sql_query.type # "str"
    /\ pc' = "raised"
    /\ exc' = [type |-> "AttributeError",
               text |-> "'NoneType' object has no attribute 'upper'"]
    /\ calls' = calls + 1
    /\ UNCHANGED <<sql, is_valid, validation_msg, conn, limited_sql, executed,
                   matching, description, rows, outcome, leaked>>
    /\ UNCHANGED assistant

\* process_query wraps the outcome of execute_query in a QueryResult.
ProcessQueryReturns ==
    /\ frame = "process_query"
    /\ pc = "returned"
    /\ returned' = [fn |-> "process_query",
                    value |-> QueryResult(outcome.success, sql_query, outcome,
                                          IF ~outcome.success
                                          THEN PyStr(outcome.error) ELSE PyNone)]
    /\ frame' = "main"
    /\ pc' = "idle"
    /\ ReleaseCall
    /\ UNCHANGED <<calls, client, current_client_id, client_id, client_id_before,
                   sql_gen_result, sql_query>>

\* The exception leaves process_query and is caught by main()'s loop.
MainCatches ==
    /\ pc = "raised"
    /\ pc' = "idle"
    /\ frame' = "main"
    /\ returned' = NoReturn
    /\ ReleaseCall
    /\ UNCHANGED <<calls, client, current_client_id, client_id, client_id_before,
                   sql_gen_result, sql_query>>

\* LLMSQLAssistant.__init__: the tool is constructed, no client is selected,
\* and the OpenAI client exists if the environment holds an API key.
InitAssistant ==
    /\ InitTool
    /\ frame = "main"
    /\ client \in BOOLEAN
    /\ current_client_id = None
    /\ client_id = None
    /\ client_id_before = None
    /\ sql_gen_result = NoResult
    /\ sql_query = PyNone
    /\ returned = NoReturn

NextAssistant ==
    \/ \E id \in ClientIds : SetClient(id)
    \/ SetClientCount
    \/ SetClientCounted
    \/ SetClientSummary
    \/ SetClientSummarized
    \/ ProcessQuery
    \/ ProcessQueryExecute
    \/ ProcessQueryExecuteNonStr
    \/ ProcessQueryReturns
    \/ MainCatches
    \/ Connect
    \/ Execute
    \/ Fetch
    \/ Finalize

SpecAssistant == InitAssistant /\ [][NextAssistant]_vars

-----------------------------------------------------------------------------
(* Properties *)

\* The call has validated its argument: sql, is_valid and validation_msg are set.
Validated == pc # "idle"

Odd(n) == n % 2 = 1

\* Some member of the forbidden set occurs in s, in any letter case.
MentionsForbidden(s) ==
    \E k \in 1..Len(forbidden_patterns) :
        Contains(Upper(s), Upper(forbidden_patterns[k].lit))

\* s begins with SELECT once leading whitespace and letter case are set aside.
BeginsWithSelect(s) ==
    \E i \in 1..Len(s) :
        /\ \A j \in 1..(i - 1) : s[j] \in Whitespace
        /\ i + 5 <= Len(s)
        /\ Upper(SubSeq(s, i, i + 5)) = Chars("SELECT")

IdentChars == Range(UpperLetters) \cup Range(Digits) \cup {"_"}

\* The tables the FROM clauses of s name, upper-cased: after each word FROM
\* and the whitespace that follows it, the identifier that starts there.
FromTables(s) ==
    LET u == Upper(s)
        froms == {i \in Occurrences(u, Chars("FROM")) :
                    /\ (i = 1 \/ u[i - 1] \notin IdentChars)
                    /\ i + 4 <= Len(u)
                    /\ u[i + 4] \in Whitespace}
        NameStart(i) == CHOOSE b \in (i + 4)..(Len(u) + 1) :
                            /\ \A j \in (i + 4)..(b - 1) : u[j] \in Whitespace
                            /\ (b = Len(u) + 1 \/ u[b] \notin Whitespace)
        NameEnd(b) == CHOOSE e \in (b - 1)..Len(u) :
                            /\ \A j \in b..e : u[j] \in IdentChars
                            /\ (e = Len(u) \/ u[e + 1] \notin IdentChars)
    IN  {SubSeq(u, NameStart(i), NameEnd(NameStart(i))) : i \in froms}

AllowedTables == {Chars("TRANSACTIONS"), Chars("CLIENT_SUMMARY")}

Min(a, b) == IF a <= b THEN a ELSE b

\* C1: every statement in which a member of the forbidden set occurs, in any
\* letter case and whatever follows it, is rejected by validate_sql.
C1_ForbiddenKeywordCoverage ==
    (Validated /\ MentionsForbidden(Chars(sql))) => ~is_valid

\* C2: every admitted statement names only transactions or client_summary in
\* its FROM clauses; a statement naming another table is rejected.
C2_TableAllowlist ==
    (Validated /\ is_valid) => FromTables(Chars(sql)) \subseteq AllowedTables

\* C3: a statement that does not begin with SELECT is rejected, and the reason
\* is the read-only reason whatever else is wrong with the statement.
C3_SelectRuleFirst ==
    (Validated /\ ~BeginsWithSelect(Chars(sql))) =>
        /\ ~is_valid
        /\ validation_msg = "Only SELECT queries are allowed"

\* C3 witness: a rejected statement that does not begin with SELECT and also
\* holds a forbidden keyword and an odd number of quotes.
C3_Witness ==
    /\ pc = "returned"
    /\ ~BeginsWithSelect(Chars(sql))
    /\ MentionsForbidden(Chars(sql))
    /\ Odd(Count(Chars(sql), "'"))
    /\ validation_msg = "Only SELECT queries are allowed"

\* C4: a statement with an odd number of single quotes is rejected, whatever
\* its other content.
C4_QuoteParity ==
    (Validated /\ Odd(Count(Chars(sql), "'"))) => ~is_valid

\* C4 witness: a statement that passes the SELECT, forbidden-keyword and table
\* rules and is rejected for its odd number of quotes.
C4_Witness ==
    /\ pc = "returned"
    /\ Odd(Count(Chars(sql), "'"))
    /\ BeginsWithSelect(Chars(sql))
    /\ ~MentionsForbidden(Chars(sql))
    /\ validation_msg = "Unmatched quotes detected"

\* C5: execute_query never raises; a rejected statement and a driver error both
\* return a dict with success false, a non-empty error, the statement as given
\* and no results.
C5_NoFaultCrossesExecute ==
    /\ pc # "raised"
    /\ pc = "returned" =>
        /\ outcome.success \in BOOLEAN
        /\ (~is_valid \/ exc # NoException) =>
            /\ outcome.success = FALSE
            /\ Len(outcome.error) > 0
            /\ outcome.query = sql
            /\ outcome.results = EmptyResults

\* C5 witness: a call returned after the driver raised an exception that is no
\* sqlite3.Error and has an empty message.
C5_Witness ==
    /\ pc = "returned"
    /\ is_valid
    /\ exc.type = "Exception"
    /\ exc.text = ""
    /\ outcome.success = FALSE

\* C6: while the statement of the call is rejected, no connection is open or
\* was opened and nothing was handed to the store.
C6_RejectedNeverReachesStore ==
    ~is_valid => (conn = "none" /\ executed = 0 /\ limited_sql = "")

\* C6 witness: a call that rejected its statement has returned.
C6_Witness ==
    /\ pc = "returned"
    /\ ~is_valid
    /\ BeginsWithSelect(Chars(sql))
    /\ outcome.success = FALSE

\* C7: an admitted statement without a LIMIT clause is run with LIMIT
\* max_results, so the outcome holds min(N, max_results) rows and limited says
\* whether N exceeded the cap.
C7_CapEnforcement ==
    (pc \in {"fetch", "returned"} /\ is_valid /\ executed > 0 /\ StoreLimit(Chars(sql)) = {}) =>
        /\ StoreLimit(Chars(limited_sql)) = {max_results}
        /\ (pc = "returned" /\ outcome.success = TRUE) =>
            /\ outcome.row_count = Min(matching, max_results)
            /\ matching > max_results => outcome.limited
            /\ matching < max_results => ~outcome.limited

\* C8: no successful outcome holds more than max_results rows.
C8_GlobalRowCeiling ==
    (pc = "returned" /\ outcome.success = TRUE) => outcome.row_count <= max_results

\* C9: a statement that carries LIMIT n is handed to the store as given (only
\* surrounding whitespace and terminators removed), with one LIMIT and the same
\* n, and the outcome holds at most n rows.
C9_LimitPassThrough ==
    (is_valid /\ executed > 0 /\ StoreLimit(Chars(sql)) # {}) =>
        /\ \E i \in 1..Len(sql) : \E j \in i..Len(sql) :
              /\ SubSeq(sql, i, j) = limited_sql
              /\ \A k \in (1..(i - 1)) \cup ((j + 1)..Len(sql)) :
                    SubSeq(sql, k, k) \in Whitespace \cup {";"}
        /\ StoreLimit(Chars(limited_sql)) = StoreLimit(Chars(sql))
        /\ Cardinality(Occurrences(Upper(Chars(limited_sql)), Chars("LIMIT")))
             = Cardinality(Occurrences(Upper(Chars(sql)), Chars("LIMIT")))
        /\ (pc = "returned" /\ outcome.success = TRUE) =>
              \A n \in StoreLimit(Chars(sql)) : outcome.row_count <= n

\* C9 witness: LIMIT 3 against more matching rows returned three rows, and
\* LIMIT 1002 is a statement the store was handed.
C9_Witness ==
    /\ pc = "returned"
    /\ outcome.success = TRUE
    /\ StoreLimit(Chars(sql)) = {3}
    /\ matching > 3
    /\ outcome.row_count = 3

\* C10: a call that opened a connection ran exactly one statement on it and
\* has closed it when it returns, and no returned call leaves one open.
C10_ConnectionLifecycle ==
    /\ pc = "returned" => conn # "open"
    /\ (pc = "returned" /\ conn = "closed") => executed = 1
    /\ leaked = 0

\* The statement with surrounding whitespace removed and one closing ';'
\* removed if there is one.
OneTerminatorStripped(s) ==
    LET trimmed == Strip(s)
    IN  IF trimmed # <<>> /\ trimmed[Len(trimmed)] = ";"
        THEN Strip(SubSeq(trimmed, 1, Len(trimmed) - 1))
        ELSE trimmed

\* C11: the text handed to the store is, before any LIMIT is appended, the
\* statement without surrounding whitespace and without exactly one closing
\* ';', also when whitespace follows the ';' or several ';' close it.
C11_TerminatorStripping ==
    (is_valid /\ executed > 0) =>
        LET expected == OneTerminatorStripped(Chars(sql))
        IN  Chars(limited_sql) \in
                {expected, expected \o Chars(" LIMIT ") \o NatToChars(max_results)}

\* C12: a successful outcome has column_names empty exactly when results is
\* empty, row_count equal to the number of rows, and in every row one entry per
\* entry of column_names, in the same order.
C12_NormalizedShape ==
    (pc = "returned" /\ outcome.success = TRUE) =>
        /\ (outcome.column_names = <<>>) <=> (outcome.results.len = 0)
        /\ outcome.row_count = outcome.results.len
        /\ outcome.results.len > 0 => outcome.results.keys = outcome.column_names


\* C13: when set_client returns False, current_client_id is the value it had
\* before the call.
C13_SetClientAllOrNothing ==
    (returned.fn = "set_client" /\ returned.value = FALSE) =>
        current_client_id = client_id_before

\* C14: process_query never raises; a failed generation gives success = false,
\* sql_generated = None and an error without a call of execute_query; a
\* successful one executes a string exactly once, and the QueryResult has the
\* outcome's success flag and error = None exactly when it succeeded.
C14_ProcessQueryTotal ==
    /\ pc # "raised"
    /\ (frame = "process_query" /\ calls > 0) => sql_query.type = "str"
    /\ returned.fn = "process_query" =>
          LET result == returned.value
          IN  IF ~sql_gen_result.success
              THEN /\ result.success = FALSE
                   /\ result.sql_generated = PyNone
                   /\ result.error # PyNone
                   /\ calls = 0
              ELSE /\ result.sql_generated.type = "str"
                   /\ calls = 1
                   /\ result.success = result.sql_results.success
                   /\ (result.error = PyNone) <=> (result.success = TRUE)


=============================================================================
